---- MODULE Spec2Model ----
(***************************************************************************)
(* Model of scripts/agent.py, the ChainHopper agent interface: one run of  *)
(* the command-line program, from argument parsing to process exit, with   *)
(* the child processes it starts.                                          *)
(*                                                                         *)
(* A text (a Python str) is a sequence of atoms.  An atom is a single      *)
(* character, or a fixed run of the source's own literal text that holds   *)
(* none of the characters the program searches for.  Everything the        *)
(* program searches, splits or replaces in (the git remote URL, the        *)
(* prompt template, the --issues argument) is made of single characters.   *)
(***************************************************************************)
EXTENDS Integers, Sequences, FiniteSets, TLC

VARIABLES args, env, pc, exit_code, out, config, repo_info, git_calls,
          prompt_loads, prompt, issues, processes, next_wait

vars == <<args, env, pc, exit_code, out, config, repo_info, git_calls,
          prompt_loads, prompt, issues, processes, next_wait>>

\* ------------------------------------------------------------------ bounds

\* Longest --issues argument, in characters.
MaxIssuesLen == 5

\* Most pieces a prompt template file is put together from.
MaxTemplateParts == 2

\* ------------------------------------------------------- Python str methods

\* s[from..] as a sequence (empty when from > Len(s)).
Drop(s, n) == SubSeq(s, n + 1, Len(s))

\* str.startswith
StartsWith(s, p) == Len(p) <= Len(s) /\ SubSeq(s, 1, Len(p)) = p

\* str.find, 1-based: the least position at which sub occurs in s, 0 if none.
Find(s, sub) ==
    LET hits == {i \in 1..(Len(s) - Len(sub) + 1) : SubSeq(s, i, i + Len(sub) - 1) = sub}
    IN  IF hits = {} THEN 0 ELSE CHOOSE i \in hits : \A j \in hits : i <= j

\* sub in s
Contains(s, sub) == Find(s, sub) # 0

\* str.replace(old, new) for a non-empty old: every non-overlapping occurrence,
\* scanning from the left.
RECURSIVE Replace(_, _, _)
Replace(s, old, new) ==
    LET i == Find(s, old)
    IN  IF i = 0 THEN s
        ELSE SubSeq(s, 1, i - 1) \o new \o Replace(Drop(s, i + Len(old) - 1), old, new)

\* str.split(sep) for a non-empty sep: always at least one piece.
RECURSIVE Split(_, _)
Split(s, sep) ==
    LET i == Find(s, sep)
    IN  IF i = 0 THEN <<s>>
        ELSE <<SubSeq(s, 1, i - 1)>> \o Split(Drop(s, i + Len(sep) - 1), sep)

Whitespace == {" ", "\n"}

\* str.strip()
RECURSIVE Strip(_)
Strip(s) ==
    IF s = <<>> THEN s
    ELSE IF Head(s) \in Whitespace THEN Strip(Tail(s))
    ELSE IF s[Len(s)] \in Whitespace THEN Strip(SubSeq(s, 1, Len(s) - 1))
    ELSE s

Digits == <<"0", "1", "2", "3", "4", "5", "6", "7", "8", "9">>

\* str(n) for an int n
RECURSIVE Str(_)
Str(n) ==
    IF n < 0 THEN <<"-">> \o Str(0 - n)
    ELSE IF n < 10 THEN <<Digits[n + 1]>>
    ELSE Str(n \div 10) \o <<Digits[(n % 10) + 1]>>

DigitValue(c) == CHOOSE d \in 0..9 : Digits[d + 1] = c

IsDigit(c) == \E d \in 1..10 : Digits[d] = c

\* int(s) succeeds: after stripping, a non-empty run of decimal digits.
IntOk(s) == LET t == Strip(s) IN t # <<>> /\ \A i \in 1..Len(t) : IsDigit(t[i])

\* int(s), for IntOk(s)
RECURSIVE IntOfDigits(_)
IntOfDigits(t) ==
    IF Len(t) = 1 THEN DigitValue(t[1])
    ELSE 10 * IntOfDigits(SubSeq(t, 1, Len(t) - 1)) + DigitValue(t[Len(t)])

ParseInt(s) == IntOfDigits(Strip(s))

\* ------------------------------------------------------------ get_repo_info

GitAt == <<"g", "i", "t", "@">>
GithubCom == <<"g", "i", "t", "h", "u", "b", ".", "c", "o", "m">>
GithubComSlash == GithubCom \o <<"/">>
DotGit == <<".", "g", "i", "t">>
HttpsScheme == <<"h", "t", "t", "p", "s", ":", "/", "/">>

\* The two URL forms named at get_repo_info.
SshUrl(owner, repo) == GitAt \o GithubCom \o <<":">> \o owner \o <<"/">> \o repo \o DotGit
HttpsUrl(owner, repo) == HttpsScheme \o GithubComSlash \o owner \o <<"/">> \o repo \o DotGit

\* (None, None): nothing was recognised.
NoRepo == [found |-> FALSE, owner |-> <<>>, repo |-> <<>>]

\* The path part of the URL; ok is FALSE when [1] raises IndexError.
RepoPath(url) ==
    LET parts == IF StartsWith(url, GitAt) THEN Split(url, <<":">>)
                 ELSE Split(url, GithubComSlash)
    IN  IF Len(parts) < 2 THEN [ok |-> FALSE, path |-> <<>>]
        ELSE [ok |-> TRUE, path |-> parts[2]]

\* "git remote get-url origin" printed stdout (git.ran), or could not be run.
get_repo_info(git) ==
    IF ~git.ran THEN NoRepo
    ELSE LET url == Strip(git.stdout)
         IN  IF ~Contains(url, GithubCom) THEN NoRepo
             ELSE LET p == RepoPath(url)
                  IN  IF ~p.ok THEN NoRepo
                      ELSE LET path  == Replace(p.path, DotGit, <<>>)
                               parts == Split(path, <<"/">>)
                           IN  IF Len(parts) # 2 THEN NoRepo
                               ELSE [found |-> TRUE, owner |-> parts[1], repo |-> parts[2]]

\* Python truthiness of the owner returned: neither None nor "".
Truthy(info) == info.found /\ info.owner # <<>>

\* --------------------------------------------------------- prompt templates

TaskPlaceholder ==
    <<"{", "t", "a", "s", "k", "_", "d", "e", "s", "c", "r", "i", "p", "t", "i", "o", "n", "}">>
IssuePlaceholder ==
    <<"{", "i", "s", "s", "u", "e", "_", "n", "u", "m", "b", "e", "r", "}">>

\* What a template file is put together from: plain text and the two
\* placeholder tokens cmd_implement substitutes.
TemplateParts == {<<"D", "o">>, TaskPlaceholder, IssuePlaceholder}

RECURSIVE Concat(_)
Concat(ps) == IF ps = <<>> THEN <<>> ELSE Head(ps) \o Concat(Tail(ps))

Templates ==
    {Concat(ps) : ps \in UNION {[1..n -> TemplateParts] : n \in 0..MaxTemplateParts}}

\* Mutant: the issue is referred to as owner#N.
IssueRefWithOwner(issue, info) ==
    IF Truthy(info) THEN info.owner \o <<"#">> \o Str(issue) ELSE <<"issue ">> \o Str(issue)

\* issue_ref of cmd_implement
IssueRef(issue, info) ==
    IF Truthy(info) THEN <<"#">> \o Str(issue) ELSE <<"issue ">> \o Str(issue)

\* The prompt cmd_implement composes from the template text, the issue number
\* and what get_repo_info returned.
ImplementPrompt(base_prompt, issue, info) ==
    <<"Read GitHub issue ">> \o IssueRef(issue, info) \o <<" and implement it.\n\n">>
    \o Replace(base_prompt, TaskPlaceholder, <<"See issue ">> \o IssueRef(issue, info))
    \o <<"\n">>
    \o Replace(base_prompt, IssuePlaceholder, Str(issue))
    \o <<"\n\nSteps:\n1. Read the issue to understand requirements\n2. Create branch: agent/">>
    \o Str(issue)
    \o <<"\n3. Implement the solution\n4. Run tests if applicable\n5. Commit with meaningful messages\n6. Create a PR linking to the issue\n">>

\* The prompt cmd_review composes.
ReviewPrompt(prompt_template, pr) ==
    <<"Review PR #">> \o Str(pr) \o <<" for this repository.\n\n">>
    \o prompt_template
    \o <<"\n\nSteps:\n1. Read the PR diff and description\n2. Check against the review criteria\n3. If issues found, post a review comment on the PR\n4. If LGTM, approve the PR (or post approval comment)\n">>

\* The prompt cmd_security_review composes.
SecurityPrompt(prompt_template, pr) ==
    <<"Perform a security review of PR #">> \o Str(pr) \o <<".\n\n">>
    \o prompt_template
    \o <<"\n\nThis is a SECURITY review - be thorough and paranoid.\nPost findings as a review comment on the PR.\n">>

\* The prompt cmd_batch gives the child of one issue.
BatchPrompt(issue) ==
    <<"Read GitHub issue #">> \o Str(issue)
    \o <<" and implement it. Create branch agent/">> \o Str(issue)
    \o <<", implement, and create a PR.">>

\* ------------------------------------------------- command line, environment

Commands == {"implement", "review", "security-review", "batch"}

\* No subcommand at all, and a subcommand the parser does not know.
NoCommand == ""
OtherCommands == {NoCommand, "deploy"}

DefaultProvider == "claude-code"
Providers == {DefaultProvider, "ollama"}

\* Issue and PR numbers given on the command line.
Numbers == {7, 42}

IssuesAlphabet == {"1", "2", ",", " "}

\* Every --issues argument up to MaxIssuesLen characters, well-formed or not.
IssuesArgs == UNION {[1..n -> IssuesAlphabet] : n \in 0..MaxIssuesLen}

Owners == {<<"a">>, <<"o", "-", "1">>}
Repos == {<<"r">>, <<"a", ".", "g", "i", "t", "h", "u", "b", ".", "i", "o">>}

\* What "git remote get-url origin" can print: a GitHub remote in either
\* form, nothing (no origin remote), or a remote elsewhere.
GitStdouts ==
    {SshUrl(o, r) \o <<"\n">> : o \in Owners, r \in Repos}
    \cup {HttpsUrl(o, r) \o <<"\n">> : o \in Owners, r \in Repos}
    \cup {<<>>, HttpsScheme \o <<"x", ".", "i", "o", "/", "a", "/", "r", "\n">>}

\* The lookup's outcomes: git ran and printed stdout, or could not be run.
GitResults ==
    {[ran |-> TRUE, stdout |-> s] : s \in GitStdouts} \cup {[ran |-> FALSE, stdout |-> <<>>]}

NoGit == [ran |-> FALSE, stdout |-> <<>>]

\* The file .agent/prompts/<name>.md: absent, or present with a template text.
NoFile == [exists |-> FALSE, text |-> <<>>]
PromptFiles == {NoFile} \cup {[exists |-> TRUE, text |-> t] : t \in Templates}

\* The file .agent/config.yml: absent, YAML, or not YAML.
ConfigFiles == {"missing", "valid", "invalid"}

\* How a child can end: exit codes, and -N for death by signal N (returncode).
ReturnCodes == {0, 1, 2, 0 - 9}

\* -------------------------------------------------------------------- state

\* One line of output: the stream, which message, and for the batch messages
\* the issue and the status it names.
Msg(stream, kind, issue, status) ==
    [stream |-> stream, kind |-> kind, issue |-> issue, status |-> status]

\* The traceback of an exception nothing catches; the interpreter exits 1.
Traceback(exc) == Msg("stderr", exc, 0, "")

\* The process exit status the parent of this program sees for sys.exit(n).
ExitStatus(n) == n % 256

\* A child started with the argument vector ["claude", "--print"?, prompt].
Child(issue, print, text) ==
    [issue |-> issue, print |-> print, prompt |-> text, state |-> "running", returncode |-> 0]

\* The argparse namespace of a command line; attributes of other subcommands
\* are left at 0 and "".
ArgSpace ==
    {[command |-> c, provider |-> p, print_only |-> b, issue |-> 0, pr |-> 0, issues |-> <<>>]
        : c \in OtherCommands, p \in Providers, b \in BOOLEAN}
    \cup {[command |-> "implement", provider |-> p, print_only |-> b, issue |-> n, pr |-> 0,
           issues |-> <<>>] : p \in Providers, b \in BOOLEAN, n \in Numbers}
    \cup {[command |-> c, provider |-> p, print_only |-> b, issue |-> 0, pr |-> n,
           issues |-> <<>>]
        : c \in {"review", "security-review"}, p \in Providers, b \in BOOLEAN, n \in Numbers}
    \cup {[command |-> "batch", provider |-> p, print_only |-> b, issue |-> 0, pr |-> 0,
           issues |-> a] : p \in Providers, b \in BOOLEAN, a \in IssuesArgs}

\* What the run finds around it.  Only cmd_implement looks at git, and only
\* the single-task commands read a template, so the others are given none.
EnvSpace(a) ==
    {[config_file |-> c, prompt_file |-> f, git |-> g, claude_found |-> x]
        : c \in ConfigFiles,
          f \in IF a.command \in {"implement", "review", "security-review"}
                THEN PromptFiles ELSE {NoFile},
          g \in IF a.command = "implement" THEN GitResults ELSE {NoGit},
          x \in BOOLEAN}

Init ==
    /\ args \in ArgSpace
    /\ env \in EnvSpace(args)
    /\ pc = "parse_args"
    /\ exit_code = 0
    /\ out = <<>>
    /\ config = "none"
    /\ repo_info = NoRepo
    /\ git_calls = 0
    /\ prompt_loads = 0
    /\ prompt = <<>>
    /\ issues = <<>>
    /\ processes = <<>>
    /\ next_wait = 0

\* sys.exit(code) after printing msgs.
Exit(code, msgs) ==
    /\ pc' = "exited"
    /\ exit_code' = ExitStatus(code)
    /\ out' = out \o msgs

\* ------------------------------------------------------------------- main

\* Mutant: main goes from the parsed arguments to the provider check, without
\* the call of load_config.
ParseArgsSkipsConfig ==
    /\ pc = "parse_args"
    /\ IF args.command \in Commands
       THEN /\ pc' = "check_provider"
            /\ UNCHANGED <<exit_code, out>>
       ELSE Exit(2, <<Msg("stderr", "usage error", 0, "")>>)
    /\ UNCHANGED <<args, env, config, repo_info, git_calls, prompt_loads, prompt, issues,
                   processes, next_wait>>

\* parser.parse_args(): the subcommand is required and must be one of the
\* four, or argparse reports a usage error and exits 2.
ParseArgs ==
    /\ pc = "parse_args"
    /\ IF args.command \in Commands
       THEN /\ pc' = "load_config"
            /\ UNCHANGED <<exit_code, out>>
       ELSE Exit(2, <<Msg("stderr", "usage error", 0, "")>>)
    /\ UNCHANGED <<args, env, config, repo_info, git_calls, prompt_loads, prompt, issues,
                   processes, next_wait>>

\* load_config()
LoadConfig ==
    /\ pc = "load_config"
    /\ IF env.config_file = "missing"
       THEN /\ Exit(1, <<Msg("stdout", "Config not found", 0, "")>>)
            /\ UNCHANGED config
       ELSE IF env.config_file = "invalid"
       THEN /\ Exit(1, <<Traceback("yaml.YAMLError")>>)
            /\ UNCHANGED config
       ELSE /\ config' = "loaded"
            /\ pc' = "check_provider"
            /\ UNCHANGED <<exit_code, out>>
    /\ UNCHANGED <<args, env, repo_info, git_calls, prompt_loads, prompt, issues,
                   processes, next_wait>>

\* Mutant: every provider is let through.
AnyProvider(provider) == TRUE

\* The one provider main goes on with.
Supported(provider) == provider = DefaultProvider

\* The provider check of main.
CheckProvider ==
    /\ pc = "check_provider"
    /\ IF ~Supported(args.provider)
       THEN Exit(1, <<Msg("stdout", "Provider not yet implemented", 0, "")>>)
       ELSE /\ pc' = "dispatch"
            /\ UNCHANGED <<exit_code, out>>
    /\ UNCHANGED <<args, env, config, repo_info, git_calls, prompt_loads, prompt, issues,
                   processes, next_wait>>

\* commands.get(args.command) and the call of the handler found.  ParseArgs
\* lets only the four subcommands through, so the else branch is never taken.
Dispatch ==
    /\ pc = "dispatch"
    /\ IF args.command \in Commands
       THEN /\ pc' = args.command
            /\ UNCHANGED <<exit_code, out>>
       ELSE Exit(1, <<Msg("stdout", "help", 0, "")>>)
    /\ UNCHANGED <<args, env, config, repo_info, git_calls, prompt_loads, prompt, issues,
                   processes, next_wait>>

\* ------------------------------------------------------ single-task commands

\* load_prompt(name) and run_claude_code(prompt, print_only) up to the start
\* of the child, as the three single-task handlers use them: composed is the
\* handler's prompt for the template text, used once the file is found.
LoadAndRun(composed) ==
    /\ prompt_loads' = prompt_loads + 1
    /\ IF ~env.prompt_file.exists
       THEN /\ Exit(1, <<Msg("stdout", "Prompt not found", 0, "")>>)
            /\ UNCHANGED <<prompt, processes>>
       ELSE /\ prompt' = composed
            /\ IF env.claude_found
               THEN /\ processes' = <<Child(0, args.print_only, prompt')>>
                    /\ out' = Append(out, Msg("stdout", "Running", 0, ""))
                    /\ pc' = "run"
                    /\ UNCHANGED exit_code
               ELSE /\ Exit(1, <<Msg("stdout", "Running", 0, ""),
                                 Traceback("FileNotFoundError")>>)
                    /\ UNCHANGED processes

\* cmd_implement, to the start of the child.
CmdImplement ==
    /\ pc = "implement"
    /\ repo_info' = get_repo_info(env.git)
    /\ git_calls' = git_calls + 1
    /\ LoadAndRun(ImplementPrompt(env.prompt_file.text, args.issue, repo_info'))
    /\ UNCHANGED <<args, env, config, issues, next_wait>>

\* cmd_review, to the start of the child.
CmdReview ==
    /\ pc = "review"
    /\ LoadAndRun(ReviewPrompt(env.prompt_file.text, args.pr))
    /\ UNCHANGED <<args, env, config, repo_info, git_calls, issues, next_wait>>

\* cmd_security_review, to the start of the child.
CmdSecurityReview ==
    /\ pc = "security-review"
    /\ LoadAndRun(SecurityPrompt(env.prompt_file.text, args.pr))
    /\ UNCHANGED <<args, env, config, repo_info, git_calls, issues, next_wait>>

\* Mutant: the child's return code is dropped, as cmd_batch drops it.
RunResultZero(proc) == 0

\* What run_claude_code returns for the child it waited for.
RunResult(proc) == proc.returncode

\* subprocess.run returns once the child has ended; the handler returns its
\* return code and main exits with it.
RunReturn ==
    /\ pc = "run"
    /\ processes[1].state = "terminated"
    /\ Exit(RunResult(processes[1]), <<>>)
    /\ UNCHANGED <<args, env, config, repo_info, git_calls, prompt_loads, prompt, issues,
                   processes, next_wait>>

\* -------------------------------------------------------------------- batch

\* [int(i.strip()) for i in args.issues.split(",")] raises no ValueError.
IssuesOk(a) == \A i \in 1..Len(Split(a, <<",">>)) : IntOk(Strip(Split(a, <<",">>)[i]))

\* The issue numbers of a well-formed --issues argument, in input order.
ParseIssues(a) ==
    LET pieces == Split(a, <<",">>)
    IN  [i \in 1..Len(pieces) |-> ParseInt(Strip(pieces[i]))]

\* cmd_batch, to the first iteration of the launch loop.
CmdBatch ==
    /\ pc = "batch"
    /\ IF IssuesOk(args.issues)
       THEN /\ issues' = ParseIssues(args.issues)
            /\ out' = Append(out, Msg("stdout", "Dispatching", Len(issues'), ""))
            /\ pc' = "launch"
            /\ UNCHANGED exit_code
       ELSE /\ Exit(1, <<Traceback("ValueError")>>)
            /\ UNCHANGED issues
    /\ UNCHANGED <<args, env, config, repo_info, git_calls, prompt_loads, prompt,
                   processes, next_wait>>

\* One iteration of the launch loop: Popen for the next issue of the list.
BatchLaunch ==
    /\ pc = "launch"
    /\ Len(processes) < Len(issues)
    /\ LET issue == issues[Len(processes) + 1]
       IN  IF env.claude_found
           THEN /\ processes' = Append(processes, Child(issue, TRUE, BatchPrompt(issue)))
                /\ out' = Append(out, Msg("stdout", "Starting", issue, ""))
                /\ UNCHANGED <<pc, exit_code>>
           ELSE /\ Exit(1, <<Msg("stdout", "Starting", issue, ""),
                             Traceback("FileNotFoundError")>>)
                /\ UNCHANGED processes
    /\ UNCHANGED <<args, env, config, repo_info, git_calls, prompt_loads, prompt, issues,
                   next_wait>>

\* The launch loop is over: the wait loop begins.
BatchWaitBegin ==
    /\ pc = "launch"
    /\ Len(processes) = Len(issues)
    /\ out' = Append(out, Msg("stdout", "Waiting", 0, ""))
    /\ pc' = "wait"
    /\ next_wait' = 1
    /\ UNCHANGED <<args, env, exit_code, config, repo_info, git_calls, prompt_loads, prompt,
                   issues, processes>>

\* Mutant: a child killed by a signal counts as done.
StatusNonPositive(returncode) == IF returncode <= 0 THEN "done" ELSE "failed"

\* "done" if proc.returncode == 0 else "failed"
Status(returncode) == IF returncode = 0 THEN "done" ELSE "failed"

\* Mutant: the wait loop goes through the children last to first.
WaitOrderReversed(k) == Len(processes) + 1 - k

\* The entry of processes the k-th iteration of the wait loop takes.
WaitOrder(k) == k

\* One iteration of the wait loop: proc.wait() returns once that child has
\* ended, and its status is printed.
BatchWait ==
    /\ pc = "wait"
    /\ next_wait <= Len(processes)
    /\ LET proc == processes[WaitOrder(next_wait)]
       IN  /\ proc.state = "terminated"
           /\ out' = Append(out, Msg("stdout", "Issue", proc.issue, Status(proc.returncode)))
    /\ next_wait' = next_wait + 1
    /\ UNCHANGED <<args, env, pc, exit_code, config, repo_info, git_calls, prompt_loads,
                   prompt, issues, processes>>

\* Mutant: cmd_batch returns the number of children that failed.
BatchResultFailures == Cardinality({k \in 1..Len(processes) : processes[k].returncode # 0})

\* What cmd_batch returns.
BatchResult == 0

\* The wait loop is over: cmd_batch returns and main exits with its result.
BatchReturn ==
    /\ pc = "wait"
    /\ next_wait > Len(processes)
    /\ Exit(BatchResult, <<>>)
    /\ UNCHANGED <<args, env, config, repo_info, git_calls, prompt_loads, prompt, issues,
                   processes, next_wait>>

\* ----------------------------------------------------------------- children

\* A running child ends, by exiting or by a signal.  Nothing makes it end.
ChildExit(i, rc) ==
    /\ processes[i].state = "running"
    /\ processes' = [processes EXCEPT ![i].state = "terminated", ![i].returncode = rc]
    /\ UNCHANGED <<args, env, pc, exit_code, out, config, repo_info, git_calls,
                   prompt_loads, prompt, issues, next_wait>>

Next ==
    \/ ParseArgs
    \/ LoadConfig
    \/ CheckProvider
    \/ Dispatch
    \/ CmdImplement
    \/ CmdReview
    \/ CmdSecurityReview
    \/ RunReturn
    \/ CmdBatch
    \/ BatchLaunch
    \/ BatchWaitBegin
    \/ BatchWait
    \/ BatchReturn
    \/ \E i \in 1..Len(processes), rc \in ReturnCodes : ChildExit(i, rc)

Spec == Init /\ [][Next]_vars

\* ------------------------------------------------------------------ claims

SingleTask == {"implement", "review", "security-review"}

\* The per-issue status lines printed so far, in the order printed.
StatusLines == SelectSeq(out, LAMBDA m : m.kind = "Issue")

Printed(kind) == \E k \in 1..Len(out) : out[k].kind = kind

AllTerminated == \A k \in 1..Len(processes) : processes[k].state = "terminated"

\* Number of non-overlapping occurrences of sub in s, scanning from the left
\* (what str.count gives).
RECURSIVE Count(_, _)
Count(s, sub) ==
    LET i == Find(s, sub)
    IN  IF i = 0 THEN 0 ELSE 1 + Count(Drop(s, i + Len(sub) - 1), sub)

\* The number of items of a comma-separated list.
ListLen(a) == Count(a, <<",">>) + 1

\* The run gets as far as the handler of its subcommand.
ReachesHandler ==
    /\ args.command \in Commands
    /\ args.provider = DefaultProvider
    /\ env.config_file = "valid"

\* A batch run over a well-formed list, with the agent executable at hand.
BatchRuns ==
    /\ ReachesHandler
    /\ args.command = "batch"
    /\ IssuesOk(args.issues)
    /\ env.claude_found

\* C1: in a batch run over a well-formed list of N issue numbers with the
\* agent executable available, one child is launched per listed issue and no
\* more, N in all once the launches are over; each status line printed names
\* the issue at its place of the list and says "done" exactly when that
\* issue's own child returned 0, "failed" otherwise; and when the program has
\* exited there is exactly one status line per listed issue.
C1_OneChildOneStatusPerIssue ==
    BatchRuns =>
        /\ Len(processes) <= ListLen(args.issues)
        /\ pc \in {"wait", "exited"} => Len(processes) = ListLen(args.issues)
        /\ \A k \in 1..Len(processes) :
              processes[k].issue = ParseInt(Split(args.issues, <<",">>)[k])
        /\ Len(StatusLines) <= Len(processes)
        /\ \A k \in 1..Len(StatusLines) :
              /\ StatusLines[k].issue = processes[k].issue
              /\ processes[k].state = "terminated"
              /\ StatusLines[k].status \in {"done", "failed"}
              /\ StatusLines[k].status = "done" <=> processes[k].returncode = 0
        /\ pc = "exited" => Len(StatusLines) = ListLen(args.issues)

\* A batch of three has ended with the first child failed by a signal, the
\* second done and the third failed by its exit code.
C1_Witness ==
    /\ BatchRuns
    /\ pc = "exited"
    /\ Len(processes) = 3
    /\ processes[1].returncode < 0
    /\ processes[2].returncode = 0
    /\ processes[3].returncode > 0
    /\ Len(StatusLines) = 3

\* cmd_batch has returned: the program has exited after the wait loop began.
BatchReturned == args.command = "batch" /\ pc = "exited" /\ Printed("Waiting")

\* C2: when the batch command has returned, every child it launched has
\* terminated and the program's exit code is 0, whatever the children
\* returned; so while some child has not terminated, batch has not returned.
C2_BatchReturnsZeroAfterAllChildren ==
    BatchReturned =>
        /\ AllTerminated
        /\ Len(processes) = ListLen(args.issues)
        /\ exit_code = 0

\* Batch has returned with exit code 0 although every child failed.
C2_Witness ==
    /\ BatchReturned
    /\ Len(processes) >= 2
    /\ \A k \in 1..Len(processes) : processes[k].returncode # 0
    /\ exit_code = 0

\* Nothing was read for a prompt and nothing was started.
NoWorkDone == prompt_loads = 0 /\ git_calls = 0 /\ processes = <<>> /\ prompt = <<>>

\* C3 as stated: for every subcommand, a provider other than claude-code makes
\* the program print the unsupported-provider message and exit 1, with no
\* prompt template loaded and no child launched.
C3_Original ==
    (args.command \in Commands /\ args.provider # DefaultProvider) =>
        /\ NoWorkDone
        /\ pc = "exited" =>
              /\ exit_code = 1
              /\ Printed("Provider not yet implemented")

\* C3 as amended: for every subcommand, a provider other than claude-code makes
\* the program exit 1 with no prompt template loaded and no child launched; it
\* prints the unsupported-provider message exactly when the configuration file
\* was there and loaded, and when the file is missing it prints the
\* config-not-found message and nothing else.
C3_UnsupportedProviderAfterConfig ==
    (args.command \in Commands /\ args.provider # DefaultProvider) =>
        /\ NoWorkDone
        /\ pc = "exited" =>
              /\ exit_code = 1
              /\ Printed("Provider not yet implemented") <=> env.config_file = "valid"
              /\ env.config_file = "missing" =>
                    out = <<Msg("stdout", "Config not found", 0, "")>>
              /\ env.config_file = "valid" =>
                    out = <<Msg("stdout", "Provider not yet implemented", 0, "")>>

\* A batch run with provider ollama and a valid configuration has been turned
\* down.
C3_Witness ==
    /\ args.command = "batch"
    /\ args.provider # DefaultProvider
    /\ env.config_file = "valid"
    /\ pc = "exited"
    /\ exit_code = 1
    /\ Printed("Provider not yet implemented")

\* C4: with the configuration file missing, every well-formed command line
\* ends in a nonzero exit code, and at no time is a provider-check outcome
\* printed, a prompt template read, git asked or a child launched.
C4_MissingConfigStopsEverything ==
    (args.command \in Commands /\ env.config_file = "missing") =>
        /\ NoWorkDone
        /\ config = "none"
        /\ ~Printed("Provider not yet implemented")
        /\ pc \in {"parse_args", "load_config", "exited"}
        /\ pc = "exited" => exit_code # 0 /\ Printed("Config not found")

\* An implement run under an unsupported provider, with a template and the
\* agent at hand, has ended on the missing configuration file.
C4_Witness ==
    /\ args.command = "implement"
    /\ args.provider # DefaultProvider
    /\ env.config_file = "missing"
    /\ env.prompt_file.exists
    /\ env.claude_found
    /\ pc = "exited"
    /\ exit_code = 1

\* A single-task run with the configuration and the template present and the
\* default provider.
SingleTaskRuns ==
    /\ ReachesHandler
    /\ args.command \in SingleTask
    /\ env.prompt_file.exists

\* The program's exit code in a batch run, from the command line and the
\* environment alone.
BatchExitCode == IF IssuesOk(args.issues) /\ env.claude_found THEN 0 ELSE 1

\* C5 as stated, read with the agent executable available as C1 states it: a
\* single-task run launches exactly one child, waits for it, and exits with
\* that child's exit code; the exit code of a batch run does not depend on
\* the children's.
C5_Original ==
    /\ (SingleTaskRuns /\ env.claude_found /\ pc = "exited") =>
          /\ Len(processes) = 1
          /\ processes[1].state = "terminated"
          /\ exit_code = processes[1].returncode
    /\ (ReachesHandler /\ args.command = "batch" /\ pc = "exited") =>
          exit_code = BatchExitCode

\* C5 as amended: a single-task run that can start the agent executable
\* launches exactly one child, waits for it, and exits with that child's
\* return code modulo 256: the child's exit code when the child exited, and
\* 256 - N when signal N killed it; the exit code of a batch run does not
\* depend on the children's.
C5_ExitCodeIsReturnCodeMod256 ==
    /\ (SingleTaskRuns /\ env.claude_found) =>
          /\ Len(processes) <= 1
          /\ pc = "exited" =>
                /\ Len(processes) = 1
                /\ processes[1].state = "terminated"
                /\ processes[1].returncode >= 0 => exit_code = processes[1].returncode
                /\ processes[1].returncode < 0 => exit_code = 256 + processes[1].returncode
    /\ (ReachesHandler /\ args.command = "batch" /\ pc = "exited") =>
          exit_code = BatchExitCode

\* A review run has ended with exit code 247 after signal 9 killed its child.
C5_Witness ==
    /\ SingleTaskRuns
    /\ args.command = "review"
    /\ pc = "exited"
    /\ Len(processes) = 1
    /\ processes[1].returncode = 0 - 9
    /\ exit_code = 247

\* The handler of a single-task run has composed its prompt.
Composed == SingleTaskRuns /\ prompt_loads = 1

\* The prompt the run's subcommand composes from this run's template text and
\* number when the git lookup comes out as g.
PromptWhereGit(g) ==
    IF args.command = "implement"
    THEN ImplementPrompt(env.prompt_file.text, args.issue, get_repo_info(g))
    ELSE IF args.command = "review"
    THEN ReviewPrompt(env.prompt_file.text, args.pr)
    ELSE SecurityPrompt(env.prompt_file.text, args.pr)

\* C6 as stated: the prompt composed is the prompt any run of the same
\* subcommand composes from the same template text and number, whatever its
\* git lookup returns.
C6_Original == Composed => \A g \in GitResults : prompt = PromptWhereGit(g)

\* C6 as amended: the prompt composed is the prompt any run of the same
\* subcommand composes from the same template text and number, provided, for
\* implement, that the two git lookups agree on whether an owner was found.
C6_PromptUpToOwnerFound ==
    Composed =>
        \A g \in GitResults :
            (args.command = "implement" =>
                (Truthy(get_repo_info(g)) <=> Truthy(get_repo_info(env.git))))
            => prompt = PromptWhereGit(g)

\* An implement run has composed its prompt with an owner found, and another
\* lookup would have found another owner.
C6_Witness ==
    /\ Composed
    /\ args.command = "implement"
    /\ Truthy(repo_info)
    /\ \E g \in GitResults :
          Truthy(get_repo_info(g)) /\ get_repo_info(g).owner # repo_info.owner

\* C7: after the lookup of an implement run whose origin remote is the SSH or
\* the HTTPS form of owner/repo, the pair returned is that owner and that
\* repository, and the two forms return the same pair.
C7_SshAndHttpsGiveTheNamedPair ==
    \A o \in Owners, r \in Repos :
        (git_calls = 1 /\ Strip(env.git.stdout) \in {SshUrl(o, r), HttpsUrl(o, r)}) =>
            /\ repo_info = [found |-> TRUE, owner |-> o, repo |-> r]
            /\ get_repo_info([ran |-> TRUE, stdout |-> SshUrl(o, r)])
                  = get_repo_info([ran |-> TRUE, stdout |-> HttpsUrl(o, r)])

\* C8: a command line without a subcommand, or with one that is not among the
\* four, ends with help printed and exit code 1, and no child launched.
C8_UnknownCommandHelpAndExitOne ==
    args.command \notin Commands =>
        /\ processes = <<>>
        /\ pc = "exited" => exit_code = 1 /\ Printed("help")

\* C9: in batch mode the children are launched in input order; the wait loop
\* begins only when all of them are launched; and the status lines come in
\* input order, the line of item k only once the children of the items up to
\* k have terminated and the lines before it are printed.
C9_LaunchAllThenWaitInInputOrder ==
    (ReachesHandler /\ args.command = "batch") =>
        /\ \A k \in 1..Len(processes) : processes[k].issue = issues[k]
        /\ (pc = "wait" \/ Printed("Waiting") \/ StatusLines # <<>>) =>
              Len(processes) = Len(issues) /\ Len(issues) = ListLen(args.issues)
        /\ pc = "wait" => Len(StatusLines) = next_wait - 1
        /\ \A k \in 1..Len(StatusLines) :
              /\ StatusLines[k].issue = issues[k]
              /\ StatusLines[k].status = Status(processes[k].returncode)
              /\ \A j \in 1..k : processes[j].state = "terminated"

\* The wait loop still waits for the first child, with nothing reported,
\* while the second child, of another issue, has already terminated.
C9_Witness ==
    /\ ReachesHandler
    /\ args.command = "batch"
    /\ pc = "wait"
    /\ Len(processes) >= 2
    /\ processes[1].issue # processes[2].issue
    /\ processes[1].state = "running"
    /\ processes[2].state = "terminated"
    /\ StatusLines = <<>>

\* The template text with both placeholders substituted.
Substituted(text) ==
    Replace(Replace(text, TaskPlaceholder, <<"See issue ">> \o IssueRef(args.issue, repo_info)),
            IssuePlaceholder, Str(args.issue))

\* C10: the prompt an implement run passes to the agent, for a template with
\* both placeholders, holds the substituted template text once and no
\* occurrence of {task_description} or {issue_number}.
C10_PlaceholdersReplacedOnce ==
    (/\ args.command = "implement"
     /\ processes # <<>>
     /\ Contains(env.prompt_file.text, TaskPlaceholder)
     /\ Contains(env.prompt_file.text, IssuePlaceholder)) =>
        /\ ~Contains(processes[1].prompt, TaskPlaceholder)
        /\ ~Contains(processes[1].prompt, IssuePlaceholder)
        /\ Count(processes[1].prompt, Substituted(env.prompt_file.text)) = 1

====
